---------------------------- MODULE Spec2Model ----------------------------
(***************************************************************************)
(* Model of the batch-enrichment orchestrator of code/enrich_listings.py.  *)
(*                                                                         *)
(* enrich_listing (one record), enrich_listings_batch (the batches, the    *)
(* merge into the output table, the intermediate file) and the part of     *)
(* main that loads the table and invokes the orchestrator.                 *)
(*                                                                         *)
(* Representation.  A string of the program is a sequence of one-character *)
(* strings, so that str.lower, str.replace and the f-strings that build    *)
(* column names are computed character by character.  A cell of a table is *)
(* <<>> for a missing value (None and NaN: pd.isna is true of both, and    *)
(* to_csv writes both as the empty field) or <<v>> for the value v.        *)
(*                                                                         *)
(* Scheduling.  The program is one asyncio event loop: code between two    *)
(* awaits is one atomic step.  An operator interruption is delivered as    *)
(* asyncio.run delivers the first SIGINT: by cancelling the main task,     *)
(* which takes effect at the await the task is suspended on (the gather of *)
(* a batch or the sleep between two batches).                              *)
(***************************************************************************)
EXTENDS Integers, Sequences, FiniteSets, TLC

(***************************************************************************)
(* Bounds of the model.                                                    *)
(***************************************************************************)
\* rows of the input table
MaxRows == 3
\* largest --batch-size explored
MaxBatch == 2
\* adapter calls that fail plus unexpected (non-adapter) errors, in one run
MaxIncidents == 2

(***************************************************************************)
(* Strings.                                                                *)
(***************************************************************************)
UpperChars == <<"A","B","C","D","E","F","G","H","I","J","K","L","M",
                "N","O","P","Q","R","S","T","U","V","W","X","Y","Z">>

LowerChars == <<"a","b","c","d","e","f","g","h","i","j","k","l","m",
                "n","o","p","q","r","s","t","u","v","w","x","y","z">>

\* str.lower on one character
LowerChar(c) ==
    IF \E j \in 1..Len(UpperChars) : UpperChars[j] = c
    THEN LowerChars[CHOOSE j \in 1..Len(UpperChars) : UpperChars[j] = c]
    ELSE c

\* landmark_name.lower().replace(" ", "_")
Slug(name) ==
    [j \in 1..Len(name) |->
        IF LowerChar(name[j]) = " " THEN "_" ELSE LowerChar(name[j])]

S_median_income == <<"m","e","d","i","a","n","_","i","n","c","o","m","e">>
S_bus_stops_1km == <<"b","u","s","_","s","t","o","p","s","_","1","k","m">>
S_police_beat   == <<"p","o","l","i","c","e","_","b","e","a","t">>
S_nearby        == <<"_","n","e","a","r","b","y">>
S_drive_to      == <<"d","r","i","v","e","_","t","o","_">>
S_min           == <<"_","m","i","n">>
S_latitude      == <<"l","a","t","i","t","u","d","e">>
S_longitude     == <<"l","o","n","g","i","t","u","d","e">>
S_address       == <<"a","d","d","r","e","s","s">>
S_gyms          == <<"g","y","m","s">>
S_cafes         == <<"c","a","f","e","s">>
S_Carle_Hospital == <<"C","a","r","l","e"," ","H","o","s","p","i","t","a","l">>

\* f'{name}_nearby'
NearbyCol(name) == name \o S_nearby

\* f'drive_to_{landmark_name.lower().replace(" ", "_")}_min'
DriveCol(landmark_name) == S_drive_to \o Slug(landmark_name) \o S_min

(***************************************************************************)
(* Cells, tables (pandas DataFrame) and CSV files.                         *)
(***************************************************************************)
NoData == <<>>

\* pd.isna
IsNa(v) == v = NoData

\* The position (1-based) of x in the sequence s, 0 when absent.
PosOf(s, x) ==
    IF \E j \in 1..Len(s) : s[j] = x
    THEN CHOOSE j \in 1..Len(s) : s[j] = x /\ \A h \in 1..(j-1) : s[h] # x
    ELSE 0

Range(s) == {s[j] : j \in 1..Len(s)}

\* A DataFrame: index (the row labels), columns (in order) and one map
\* column -> cell per row.
\* A variant of NewColumn that rebuilds the frame around the new column and
\* loses the cells it held.
NewColumnResetting(t, col) ==
    IF col \in Range(t.columns) THEN t
    ELSE [t EXCEPT !.columns = Append(@, col),
                   !.data = [r \in 1..Len(t.data) |->
                               [c \in DOMAIN t.data[r] \cup {col} |-> NoData]]]

NewColumn(t, col) ==
    IF col \in Range(t.columns) THEN t
    ELSE [t EXCEPT !.columns = Append(@, col),
                   !.data = [r \in 1..Len(t.data) |->
                               [c \in DOMAIN t.data[r] \cup {col} |->
                                   IF c = col THEN NoData ELSE t.data[r][c]]]]

NewRow(t, label) ==
    IF label \in Range(t.index) THEN t
    ELSE [t EXCEPT !.index = Append(@, label),
                   !.data = Append(@, [c \in Range(t.columns) |-> NoData])]

\* A variant of SetAt that writes the row at the END of the frame instead of
\* the row labelled idx (a merge by position past the end).
SetAtAppending(t, idx, col, value) ==
    LET t1 == NewColumn(t, col)
        t2 == [t1 EXCEPT !.index = Append(@, idx),
                         !.data = Append(@, [c \in Range(t1.columns) |-> NoData])]
    IN  [t2 EXCEPT !.data[Len(t2.data)][col] = value]

\* A variant of SetAt that assigns the whole column (enriched_df[col] = value).
SetAtBroadcast(t, idx, col, value) ==
    LET t1 == NewRow(NewColumn(t, col), idx)
    IN  [t1 EXCEPT !.data = [r \in 1..Len(t1.data) |->
                               [t1.data[r] EXCEPT ![col] = value]]]

\* enriched_df.at[idx, col] = value : the column and the row labelled idx
\* are created (filled with NaN) when the frame does not have them.
SetAt(t, idx, col, value) ==
    LET t1 == NewRow(NewColumn(t, col), idx)
    IN  [t1 EXCEPT !.data[PosOf(t1.index, idx)][col] = value]

\* df.to_csv(path, index=False): the header line and one line per row, the
\* row labels dropped.
ToCsv(t) ==
    [header |-> t.columns,
     lines  |-> [r \in 1..Len(t.data) |->
                   [c \in 1..Len(t.columns) |-> t.data[r][t.columns[c]]]]]

\* pd.read_csv(path): a fresh RangeIndex 0..n-1, an empty field read as NaN.
ReadCsv(f) ==
    [index   |-> [r \in 1..Len(f.lines) |-> r - 1],
     columns |-> f.header,
     data    |-> [r \in 1..Len(f.lines) |->
                    [c \in Range(f.header) |-> f.lines[r][PosOf(f.header, c)]]]]


(***************************************************************************)
(* Configuration and the Record Enricher (enrich_listing).                 *)
(***************************************************************************)
\* The configurations explored.  place_types and landmarks are the keys of
\* the two dicts, in iteration (insertion) order.
MakeConfig(census, mtd, beat, places, routes, types, marks, save) ==
    [include_census |-> census, include_mtd |-> mtd,
     include_police_beat |-> beat, include_places |-> places,
     include_routes |-> routes, place_types |-> types, landmarks |-> marks,
     save_intermediate |-> save]

Configs ==
    { MakeConfig(FALSE, TRUE, FALSE, FALSE, FALSE, <<>>, <<>>, TRUE),
      MakeConfig(TRUE, FALSE, FALSE, TRUE, FALSE, <<S_gyms>>, <<>>, TRUE),
      MakeConfig(FALSE, FALSE, TRUE, FALSE, TRUE, <<>>, <<S_Carle_Hospital>>, TRUE),
      MakeConfig(FALSE, FALSE, FALSE, TRUE, FALSE, <<S_gyms, S_cafes>>, <<>>, FALSE) }

\* The adapter calls enrich_listing makes for a record with coordinates, in
\* program order, each with the key it stores its result under.
Calls(cfg) ==
    (IF cfg.include_census
        THEN << [family |-> "census", col |-> S_median_income] >> ELSE << >>)
    \o (IF cfg.include_mtd
        THEN << [family |-> "mtd", col |-> S_bus_stops_1km] >> ELSE << >>)
    \o (IF cfg.include_police_beat
        THEN << [family |-> "police_beat", col |-> S_police_beat] >> ELSE << >>)
    \o (IF cfg.include_places
        THEN [j \in 1..Len(cfg.place_types) |->
                [family |-> "places", col |-> NearbyCol(cfg.place_types[j])]]
        ELSE << >>)
    \o (IF cfg.include_routes
        THEN [j \in 1..Len(cfg.landmarks) |->
                [family |-> "routes", col |-> DriveCol(cfg.landmarks[j])]]
        ELSE << >>)

\* Calls, tabulated over the configurations explored.
CallsOf == [cfg \in Configs |-> Calls(cfg)]

\* What the stubbed adapter of call k answers for the coordinate (lat, lon):
\* a value that names both the record and the call.
StubValue(lat, lon, k) == << 10 * lat[1] + k >>

\* enriched_data[col] = value on a dict kept as the sequence of its items:
\* an existing key keeps its place, a new key goes last.
DictSet(d, col, value) ==
    IF \E j \in 1..Len(d) : d[j].col = col
    THEN [j \in 1..Len(d) |-> IF d[j].col = col THEN [col |-> col, value |-> value]
                                                 ELSE d[j]]
    ELSE Append(d, [col |-> col, value |-> value])

\* A variant of StoreResult that stores the failure marker under the key of
\* the PREVIOUS call as well (a failure leaking into a sibling attribute).
StoreResultLeaking(data, calls, k, row, ok) ==
    IF ok
    THEN DictSet(data, calls[k].col, StubValue(row[S_latitude], row[S_longitude], k))
    ELSE LET d1 == DictSet(data, calls[k].col, NoData)
         IN  IF k > 1 THEN DictSet(d1, calls[k-1].col, NoData) ELSE d1

\* A variant of StoreResult that stores nothing when the adapter raised.
StoreResultDropping(data, calls, k, row, ok) ==
    IF ok
    THEN DictSet(data, calls[k].col, StubValue(row[S_latitude], row[S_longitude], k))
    ELSE data

\* One inner try/except of enrich_listing: the value on success, None when
\* the adapter raised.
StoreResult(data, calls, k, row, ok) ==
    DictSet(data, calls[k].col,
            IF ok THEN StubValue(row[S_latitude], row[S_longitude], k) ELSE NoData)

\* A variant of MissingCoordinates that tests the latitude only.
MissingLatitude(row) == IsNa(row[S_latitude])

\* if pd.isna(lat) or pd.isna(lon)
MissingCoordinates(row) == IsNa(row[S_latitude]) \/ IsNa(row[S_longitude])

\* A task of the batch: st is "pending" (created, not yet run), "awaiting"
\* (suspended on adapter call k), "returned" or "raised".
NewTask == [st |-> "pending", k |-> 0, data |-> << >>]

(***************************************************************************)
(* The merge of a batch into the output table.                             *)
(***************************************************************************)
RECURSIVE MergeItems(_, _, _)
\* for col, value in result.items(): enriched_df.at[idx, col] = value
MergeItems(t, idx, items) ==
    IF items = << >> THEN t
    ELSE MergeItems(SetAt(t, idx, items[1].col, items[1].value), idx, Tail(items))

RECURSIVE MergeBatchStopAtRaise(_, _, _, _)
\* A variant of MergeBatch in which a result that is an exception ends the
\* merge loop (break instead of continue).
MergeBatchStopAtRaise(t, tk, lo, hi) ==
    IF lo >= hi \/ tk[lo].st = "raised" THEN t
    ELSE MergeBatchStopAtRaise(MergeItems(t, lo, tk[lo].data), tk, lo + 1, hi)

Min(a, b) == IF a <= b THEN a ELSE b

(***************************************************************************)
(* State.                                                                  *)
(***************************************************************************)
VARIABLES
    inputFile,        \* the CSV file given as --input on the first invocation
    checkpointFile,   \* the intermediate CSV file: << >> absent, <<csv>> present
    pc,               \* "idle", "gather", "sleep", "done", "failed", "interrupted"
    config,           \* the config dict of the current invocation
    batch_size,       \* --batch-size
    start_idx,        \* --start-idx
    df,               \* the table main loaded
    enriched_df,      \* the output table of enrich_listings_batch
    i,                \* the loop variable of the batch loop
    tasks,            \* the tasks of the batch being gathered, by positional index
    attempts,         \* per record: tasks created for it in this invocation
    adapterCalls,     \* per record: the adapter calls issued for it, in order
    failed,           \* the adapter calls <<idx, k>> that raised in this invocation
    faults,           \* the records whose enrichment hit a non-adapter error
    checkpointWrites, \* completed writes of the intermediate file, this invocation
    boundary,         \* records covered by the last completed write
    delays,           \* inter-batch sleeps started in this invocation
    runsLeft,         \* re-invocations (resumes) still allowed
    prior,            \* << >>, or <<what the interrupted invocation left>>
    report,           \* << >> while main runs, or <<how main ended>>
    outOfOrder,       \* a task of the batch finished before one of lower index
    call              \* << >>, or <<a function call examined on its own>>

vars == << inputFile, checkpointFile, pc, config, batch_size, start_idx, df,
           enriched_df, i, tasks, attempts, adapterCalls, failed, faults,
           checkpointWrites, boundary, delays, runsLeft, prior, report,
           outOfOrder, call >>

RECURSIVE MergeBatchAsCompleted(_, _, _, _)
\* A variant of MergeBatch that takes the results in completion order: when
\* a task finished before one of lower index, the results of two
\* neighbours are merged into each other's row.
MergeBatchAsCompleted(t, tk, lo, hi) ==
    IF lo >= hi THEN t
    ELSE IF outOfOrder /\ lo + 1 < hi
    THEN LET t1 == IF tk[lo + 1].st = "raised" THEN t
                   ELSE MergeItems(t, lo, tk[lo + 1].data)
             t2 == IF tk[lo].st = "raised" THEN t1
                   ELSE MergeItems(t1, lo + 1, tk[lo].data)
         IN  MergeBatchAsCompleted(t2, tk, lo + 2, hi)
    ELSE MergeBatchAsCompleted(IF tk[lo].st = "raised" THEN t
                               ELSE MergeItems(t, lo, tk[lo].data),
                               tk, lo + 1, hi)

RECURSIVE MergeBatch(_, _, _, _)
\* for idx_offset, result in enumerate(results): the results of the tasks of
\* [lo, hi) in task order; a result that is an exception is skipped.
MergeBatch(t, tk, lo, hi) ==
    IF lo >= hi THEN t
    ELSE MergeBatch(IF tk[lo].st = "raised" THEN t
                    ELSE MergeItems(t, lo, tk[lo].data),
                    tk, lo + 1, hi)

total == Len(df.data)

batch_end == Min(i + batch_size, total)

\* The input tables explored: row r (1-based) has address 100 + r and the
\* coordinate (r, r); any set of rows may lack a coordinate, the latitude in
\* an odd row and the longitude in an even row.
InputTable(present) ==
    [header |-> << S_address, S_latitude, S_longitude >>,
     lines  |-> [r \in 1..Len(present) |->
                   << <<100 + r>>,
                      IF present[r] \/ r % 2 = 0 THEN <<r>> ELSE NoData,
                      IF present[r] \/ r % 2 = 1 THEN <<r>> ELSE NoData >>]]

EmptyFrame == [index |-> << >>, columns |-> << >>, data |-> << >>]

NoAttempts == [r \in 0..(MaxRows - 1) |-> 0]

Init ==
    /\ \E present \in [1..MaxRows -> BOOLEAN] :
          inputFile = InputTable(present)
    /\ checkpointFile = << >>
    /\ pc = "idle"
    /\ config \in Configs
    /\ batch_size \in 1..MaxBatch
    /\ start_idx \in 0..MaxRows
    /\ df = EmptyFrame
    /\ enriched_df = EmptyFrame
    /\ i = 0
    /\ tasks = << >>
    /\ attempts = NoAttempts
    /\ adapterCalls = [r \in 0..(MaxRows - 1) |-> << >>]
    /\ failed = {}
    /\ faults = {}
    /\ checkpointWrites = 0
    /\ boundary = 0
    /\ delays = 0
    /\ runsLeft = 0
    /\ prior = << >>
    /\ report = << >>
    /\ outOfOrder = FALSE
    /\ call = << >>

\* The initial states of the resume scenario: a first invocation from the
\* first record of the table, which the operator may resume once.
InitResume ==
    /\ \E present \in [1..MaxRows -> BOOLEAN] :
          inputFile = InputTable(present)
    /\ checkpointFile = << >>
    /\ pc = "idle"
    /\ config \in Configs
    /\ batch_size \in 1..MaxBatch
    /\ start_idx = 0
    /\ df = EmptyFrame
    /\ enriched_df = EmptyFrame
    /\ i = 0
    /\ tasks = << >>
    /\ attempts = NoAttempts
    /\ adapterCalls = [r \in 0..(MaxRows - 1) |-> << >>]
    /\ failed = {}
    /\ faults = {}
    /\ checkpointWrites = 0
    /\ boundary = 0
    /\ delays = 0
    /\ runsLeft = 1
    /\ prior = << >>
    /\ report = << >>
    /\ outOfOrder = FALSE
    /\ call = << >>

(***************************************************************************)
(* Operations.                                                             *)
(***************************************************************************)
\* A variant of CreateTasks that starts the batch one record early (a batch
\* overlapping the previous one).
CreateTasksOverlapping(count, lo, hi) ==
    LET from == IF lo > 0 /\ count[lo - 1] > 0 THEN lo - 1 ELSE lo
    IN  /\ tasks' = [idx \in from..(hi - 1) |-> NewTask]
        /\ attempts' = [r \in DOMAIN count |->
                          IF r \in from..(hi - 1) THEN count[r] + 1 ELSE count[r]]

\* for idx in range(i, batch_end): tasks.append(enrich_listing(row, config))
\* count is the number of tasks created so far in this invocation, per record.
CreateTasks(count, lo, hi) ==
    /\ tasks' = [idx \in lo..(hi - 1) |-> NewTask]
    /\ attempts' = [r \in DOMAIN count |->
                      IF r \in lo..(hi - 1) THEN count[r] + 1 ELSE count[r]]

\* The task of record idx takes a step: note whether it finishes while a
\* task of lower index in the batch has not.
FinishOrder(idx) ==
    outOfOrder' =
        \/ outOfOrder
        \/ /\ tasks'[idx].st \in {"returned", "raised"}
           /\ \E other \in DOMAIN tasks :
                 other < idx /\ tasks[other].st \notin {"returned", "raised"}

\* main ends: the exit status of the process, the last message main printed
\* and the values interpolated into that message.
Exit(status, message, values) ==
    report' = << [status |-> status, message |-> message, values |-> values] >>

\* main up to the first await of enrich_listings_batch: the table is loaded
\* from `file`, copied, and the first batch (if any) is created.
Invoke(file, s) ==
    /\ df' = ReadCsv(file)
    /\ enriched_df' = ReadCsv(file)
    /\ start_idx' = s
    /\ i' = s
    /\ outOfOrder' = FALSE
    /\ IF s < Len(file.lines)
       THEN /\ pc' = "gather"
            /\ CreateTasks(NoAttempts, s, Min(s + batch_size, Len(file.lines)))
            /\ report' = << >>
       ELSE /\ pc' = "done"
            /\ tasks' = << >>
            /\ attempts' = NoAttempts
            /\ Exit(0, "Done!", << >>)

\* The first invocation: python code/enrich_listings.py --start-idx s
StartRun ==
    /\ pc = "idle"
    /\ Invoke(inputFile, start_idx)
    /\ UNCHANGED << call, inputFile, checkpointFile, config, batch_size, adapterCalls,
                    failed, faults, checkpointWrites, boundary, delays,
                    runsLeft, prior >>

\* A task of the gathered batch starts running.  It raises out of
\* enrich_listing when the code before the try block fails.
TaskRaise(idx) ==
    /\ pc = "gather"
    /\ idx \in DOMAIN tasks
    /\ tasks[idx].st = "pending"
    /\ Cardinality(failed) + Cardinality(faults) < MaxIncidents
    /\ tasks' = [tasks EXCEPT ![idx].st = "raised"]
    /\ faults' = faults \cup {idx}
    /\ FinishOrder(idx)
    /\ UNCHANGED << call, inputFile, checkpointFile, pc, config, batch_size, start_idx,
                    df, enriched_df, i, attempts, adapterCalls, failed,
                    checkpointWrites, boundary, delays, runsLeft, prior, report >>

\* A task of the gathered batch starts running: the coordinate check, then
\* the first enabled adapter call is issued and the task suspends on it.
TaskStart(idx) ==
    /\ pc = "gather"
    /\ idx \in DOMAIN tasks
    /\ tasks[idx].st = "pending"
    /\ IF MissingCoordinates(df.data[idx + 1]) \/ CallsOf[config] = << >>
       THEN /\ tasks' = [tasks EXCEPT ![idx].st = "returned"]
            /\ UNCHANGED adapterCalls
       ELSE /\ tasks' = [tasks EXCEPT ![idx].st = "awaiting", ![idx].k = 1]
            /\ adapterCalls' = [adapterCalls EXCEPT ![idx] = Append(@, 1)]
    /\ FinishOrder(idx)
    /\ UNCHANGED << call, inputFile, checkpointFile, pc, config, batch_size, start_idx,
                    df, enriched_df, i, attempts, failed, faults,
                    checkpointWrites, boundary, delays, runsLeft, prior, report >>

\* A variant of AdapterReturn without the inner try/except: an adapter
\* exception leaves enrich_listing.
AdapterReturnRaising(idx) ==
    /\ pc = "gather"
    /\ idx \in DOMAIN tasks
    /\ tasks[idx].st = "awaiting"
    /\ \E ok \in BOOLEAN :
        LET k == tasks[idx].k
            last == k = Len(CallsOf[config])
            data == StoreResult(tasks[idx].data, CallsOf[config], k,
                                df.data[idx + 1], ok)
        IN  /\ Cardinality(failed) + Cardinality(faults)
                  + (IF ok THEN 0 ELSE 1) <= MaxIncidents
            /\ failed' = IF ok THEN failed ELSE failed \cup {<<idx, k>>}
            /\ IF ~ok
               THEN /\ tasks' = [tasks EXCEPT ![idx].st = "raised"]
                    /\ UNCHANGED adapterCalls
               ELSE IF last
               THEN /\ tasks' = [tasks EXCEPT ![idx].st = "returned",
                                              ![idx].data = data]
                    /\ UNCHANGED adapterCalls
               ELSE /\ tasks' = [tasks EXCEPT ![idx].k = k + 1,
                                              ![idx].data = data]
                    /\ adapterCalls' = [adapterCalls EXCEPT ![idx] = Append(@, k + 1)]
    /\ FinishOrder(idx)
    /\ UNCHANGED << call, inputFile, checkpointFile, pc, config, batch_size, start_idx,
                    df, enriched_df, i, attempts, faults, checkpointWrites,
                    boundary, delays, runsLeft, prior, report >>

\* A variant of AdapterReturn in which a call that raised is issued again
\* (a retry) instead of being stored as None.
AdapterReturnRetrying(idx) ==
    /\ pc = "gather"
    /\ idx \in DOMAIN tasks
    /\ tasks[idx].st = "awaiting"
    /\ \E ok \in BOOLEAN :
        LET k == tasks[idx].k
            last == k = Len(CallsOf[config])
            data == StoreResult(tasks[idx].data, CallsOf[config], k,
                                df.data[idx + 1], ok)
        IN  /\ Cardinality(failed) + Cardinality(faults)
                  + (IF ok THEN 0 ELSE 1) <= MaxIncidents
            /\ failed' = IF ok THEN failed ELSE failed \cup {<<idx, k>>}
            /\ IF ~ok
               THEN /\ UNCHANGED tasks
                    /\ adapterCalls' = [adapterCalls EXCEPT ![idx] = Append(@, k)]
               ELSE IF last
               THEN /\ tasks' = [tasks EXCEPT ![idx].st = "returned",
                                              ![idx].data = data]
                    /\ UNCHANGED adapterCalls
               ELSE /\ tasks' = [tasks EXCEPT ![idx].k = k + 1,
                                              ![idx].data = data]
                    /\ adapterCalls' = [adapterCalls EXCEPT ![idx] = Append(@, k + 1)]
    /\ FinishOrder(idx)
    /\ UNCHANGED << call, inputFile, checkpointFile, pc, config, batch_size, start_idx,
                    df, enriched_df, i, attempts, faults, checkpointWrites,
                    boundary, delays, runsLeft, prior, report >>

\* The adapter call a task is suspended on completes: it returns (ok) or
\* raises; the result is stored, and the task issues its next call or
\* returns.  With fault, the code that follows hits an unexpected error,
\* which the outer try/except turns into a return of what was collected.
AdapterReturn(idx) ==
    /\ pc = "gather"
    /\ idx \in DOMAIN tasks
    /\ tasks[idx].st = "awaiting"
    /\ \E ok \in BOOLEAN, fault \in BOOLEAN :
        LET k == tasks[idx].k
            last == k = Len(CallsOf[config])
            data == StoreResult(tasks[idx].data, CallsOf[config], k,
                                df.data[idx + 1], ok)
        IN  /\ fault => ~last
            /\ Cardinality(failed) + Cardinality(faults)
                  + (IF ok THEN 0 ELSE 1) + (IF fault THEN 1 ELSE 0) <= MaxIncidents
            /\ failed' = IF ok THEN failed ELSE failed \cup {<<idx, k>>}
            /\ faults' = IF fault THEN faults \cup {idx} ELSE faults
            /\ IF last \/ fault
               THEN /\ tasks' = [tasks EXCEPT ![idx].st = "returned",
                                              ![idx].data = data]
                    /\ UNCHANGED adapterCalls
               ELSE /\ tasks' = [tasks EXCEPT ![idx].k = k + 1,
                                              ![idx].data = data]
                    /\ adapterCalls' = [adapterCalls EXCEPT ![idx] = Append(@, k + 1)]
    /\ FinishOrder(idx)
    /\ UNCHANGED << call, inputFile, checkpointFile, pc, config, batch_size, start_idx,
                    df, enriched_df, i, attempts, checkpointWrites, boundary,
                    delays, runsLeft, prior, report >>

\* A variant of AllTasksDone that is satisfied by the first task to finish
\* (a wait for FIRST_COMPLETED instead of a gather).
AnyTaskDone == \E idx \in DOMAIN tasks : tasks[idx].st \in {"returned", "raised"}

\* await asyncio.gather(*tasks, return_exceptions=True) has its results.
AllTasksDone == \A idx \in DOMAIN tasks : tasks[idx].st \in {"returned", "raised"}

\* A variant of WriteCheckpoint that writes the table as it was before the
\* merge of the batch.
WriteCheckpointStale(t) ==
    IF config.save_intermediate
    THEN /\ checkpointFile' = << ToCsv(enriched_df) >>
         /\ checkpointWrites' = checkpointWrites + 1
         /\ boundary' = batch_end
    ELSE UNCHANGED << checkpointFile, checkpointWrites, boundary >>

\* A variant of WriteCheckpoint that skips the write of every batch but the
\* first.
WriteCheckpointOnce(t) ==
    IF config.save_intermediate /\ checkpointWrites = 0
    THEN /\ checkpointFile' = << ToCsv(t) >>
         /\ checkpointWrites' = checkpointWrites + 1
         /\ boundary' = batch_end
    ELSE UNCHANGED << checkpointFile, checkpointWrites, boundary >>

\* if config.get('save_intermediate', True): enriched_df.to_csv(...)
WriteCheckpoint(t) ==
    IF config.save_intermediate
    THEN /\ checkpointFile' = << ToCsv(t) >>
         /\ checkpointWrites' = checkpointWrites + 1
         /\ boundary' = batch_end
    ELSE UNCHANGED << checkpointFile, checkpointWrites, boundary >>

\* A variant of GatherJoin that leaves the batch loop after the first batch
\* (a return inside the loop body).
GatherJoinStopEarly ==
    /\ pc = "gather"
    /\ AllTasksDone
    /\ enriched_df' = MergeBatch(enriched_df, tasks, i, batch_end)
    /\ WriteCheckpoint(enriched_df')
    /\ tasks' = << >>
    /\ pc' = "done"
    /\ Exit(0, "Done!", << >>)
    /\ UNCHANGED << call, outOfOrder, inputFile, config, batch_size, start_idx, df, i, attempts,
                    adapterCalls, failed, faults, delays, runsLeft, prior >>

\* A variant of GatherJoin that counts (takes) the inter-batch delay after
\* the last batch as well.
GatherJoinAlwaysDelay ==
    /\ pc = "gather"
    /\ AllTasksDone
    /\ enriched_df' = MergeBatch(enriched_df, tasks, i, batch_end)
    /\ WriteCheckpoint(enriched_df')
    /\ tasks' = << >>
    /\ delays' = delays + 1
    /\ IF batch_end < total
       THEN pc' = "sleep" /\ UNCHANGED report
       ELSE pc' = "done" /\ Exit(0, "Done!", << >>)
    /\ UNCHANGED << call, outOfOrder, inputFile, config, batch_size, start_idx, df, i, attempts,
                    adapterCalls, failed, faults, runsLeft, prior >>

\* A variant of GatherJoin in which enriched_df is the table passed in and
\* not a copy of it (enriched_df = df instead of df.copy()): the merge
\* writes into df.
GatherJoinAliased ==
    /\ pc = "gather"
    /\ AllTasksDone
    /\ enriched_df' = MergeBatch(enriched_df, tasks, i, batch_end)
    /\ df' = enriched_df'
    /\ WriteCheckpoint(enriched_df')
    /\ tasks' = << >>
    /\ IF batch_end < total
       THEN pc' = "sleep" /\ delays' = delays + 1 /\ UNCHANGED report
       ELSE pc' = "done" /\ UNCHANGED delays /\ Exit(0, "Done!", << >>)
    /\ UNCHANGED << call, outOfOrder, inputFile, config, batch_size, start_idx, i, attempts,
                    adapterCalls, failed, faults, runsLeft, prior >>

\* gather returns: the results of the batch are merged, the intermediate
\* file is written, and the loop either sleeps before the next batch or ends.
GatherJoin ==
    /\ pc = "gather"
    /\ AllTasksDone
    /\ enriched_df' = MergeBatch(enriched_df, tasks, i, batch_end)
    /\ WriteCheckpoint(enriched_df')
    /\ tasks' = << >>
    /\ IF batch_end < total
       THEN pc' = "sleep" /\ delays' = delays + 1 /\ UNCHANGED report
       ELSE pc' = "done" /\ UNCHANGED delays /\ Exit(0, "Done!", << >>)
    /\ UNCHANGED << call, outOfOrder, inputFile, config, batch_size, start_idx, df, i, attempts,
                    adapterCalls, failed, faults, runsLeft, prior >>

\* What a failed to_csv can leave on disk besides the old file: the file
\* opened for writing (truncated) and nothing but the header written.
Torn(f) == [header |-> f.header, lines |-> << >>]

\* A variant of CheckpointFail in which the error of to_csv is caught and the
\* batch loop goes on without the file.
CheckpointFailSwallowed ==
    /\ pc = "gather"
    /\ AllTasksDone
    /\ config.save_intermediate
    /\ enriched_df' = MergeBatch(enriched_df, tasks, i, batch_end)
    /\ tasks' = << >>
    /\ IF batch_end < total
       THEN pc' = "sleep" /\ delays' = delays + 1 /\ UNCHANGED report
       ELSE pc' = "done" /\ UNCHANGED delays /\ Exit(0, "Done!", << >>)
    /\ UNCHANGED << call, outOfOrder, inputFile, checkpointFile, config, batch_size, start_idx, df,
                    i, attempts, adapterCalls, failed, faults, checkpointWrites,
                    boundary, runsLeft, prior >>

\* gather returns and the results are merged, but to_csv raises: the
\* exception leaves enrich_listings_batch and main exits with status 1.
CheckpointFail ==
    /\ pc = "gather"
    /\ AllTasksDone
    /\ config.save_intermediate
    /\ enriched_df' = MergeBatch(enriched_df, tasks, i, batch_end)
    /\ \/ UNCHANGED checkpointFile
       \/ checkpointFile' = << Torn(ToCsv(enriched_df')) >>
    /\ tasks' = << >>
    /\ pc' = "failed"
    /\ Exit(1, "Enrichment failed: {e}", << "OSError" >>)
    /\ UNCHANGED << call, outOfOrder, inputFile, config, batch_size, start_idx, df, i, attempts,
                    adapterCalls, failed, faults, checkpointWrites, boundary,
                    delays, runsLeft, prior >>

\* asyncio.sleep returns: the next iteration of the batch loop creates the
\* tasks of the next batch and gathers them.
SleepDone ==
    /\ pc = "sleep"
    /\ i' = i + batch_size
    /\ CreateTasks(attempts, i', Min(i' + batch_size, total))
    /\ pc' = "gather"
    /\ outOfOrder' = FALSE
    /\ UNCHANGED << call, inputFile, checkpointFile, config, batch_size, start_idx, df,
                    enriched_df, adapterCalls, failed, faults, checkpointWrites,
                    boundary, delays, runsLeft, prior, report >>

\* KeyboardInterrupt: the main task is cancelled at the await it is
\* suspended on, the tasks of the batch with it; main prints and exits.
Interrupt ==
    /\ pc \in {"gather", "sleep"}
    /\ pc' = "interrupted"
    /\ tasks' = << >>
    /\ Exit(1, "Interrupted by user. Intermediate results may have been saved.",
            << >>)
    /\ UNCHANGED << call, outOfOrder, inputFile, checkpointFile, config, batch_size, start_idx, df,
                    enriched_df, i, attempts, adapterCalls, failed, faults,
                    checkpointWrites, boundary, delays, runsLeft, prior >>

\* The operator resumes an interrupted run that left an intermediate file:
\* the script is invoked again with --start-idx set to the first record the
\* file does not cover, on the same input file or on the intermediate file.
Resume ==
    /\ pc = "interrupted"
    /\ runsLeft > 0
    /\ checkpointFile # << >>
    /\ \E fromCheckpoint \in BOOLEAN :
        /\ Invoke(IF fromCheckpoint THEN checkpointFile[1] ELSE inputFile, boundary)
        /\ prior' = << [checkpoint |-> checkpointFile[1], k |-> boundary,
                        start |-> start_idx, fromCheckpoint |-> fromCheckpoint] >>
    /\ runsLeft' = runsLeft - 1
    /\ adapterCalls' = [r \in DOMAIN adapterCalls |-> << >>]
    /\ failed' = {}
    /\ faults' = {}
    /\ checkpointWrites' = 0
    /\ delays' = 0
    /\ UNCHANGED << call, inputFile, checkpointFile, config, batch_size, boundary >>

\* One invocation of the script.
Next ==
    \/ StartRun
    \/ \E idx \in 0..(MaxRows - 1) : TaskRaise(idx)
    \/ \E idx \in 0..(MaxRows - 1) : TaskStart(idx)
    \/ \E idx \in 0..(MaxRows - 1) : AdapterReturn(idx)
    \/ GatherJoin
    \/ CheckpointFail
    \/ SleepDone
    \/ Interrupt

Spec == Init /\ [][Next]_vars

\* An invocation and, after an interruption, its resumption.
NextResume ==
    \/ Next
    \/ Resume

SpecResume == InitResume /\ [][NextResume]_vars

\* A run in which no checkpoint write fails and the operator does not
\* interrupt.  Fairness: the run does not stop while a step of it is
\* possible (the event loop runs a task that is ready, a pending adapter
\* call returns or raises, the sleep ends, the completed gather resumes the
\* loop).
NextLive ==
    \/ StartRun
    \/ \E idx \in 0..(MaxRows - 1) : TaskRaise(idx)
    \/ \E idx \in 0..(MaxRows - 1) : TaskStart(idx)
    \/ \E idx \in 0..(MaxRows - 1) : AdapterReturn(idx)
    \/ GatherJoin
    \/ SleepDone

\* The steps of the tasks of a batch, the start of the run and the end of
\* the sleep.
TaskSteps ==
    \/ StartRun
    \/ \E idx \in 0..(MaxRows - 1) : TaskRaise(idx)
    \/ \E idx \in 0..(MaxRows - 1) : TaskStart(idx)
    \/ \E idx \in 0..(MaxRows - 1) : AdapterReturn(idx)
    \/ SleepDone

\* The completed gather hands its results back to the batch loop.  In a run
\* of NextLive a step of GatherResumes that changes pc is a step of
\* GatherJoin, and it is possible exactly when GatherJoin is.
GatherResumes ==
    /\ pc = "gather"
    /\ AllTasksDone
    /\ pc' \in {"sleep", "done"}

SpecLive ==
    Init /\ [][NextLive]_vars /\ WF_vars(TaskSteps) /\ WF_pc(GatherResumes)

(***************************************************************************)
(* Vocabulary of the properties.                                           *)
(***************************************************************************)
Records == 0..(total - 1)

\* The cell of row idx (positional) in column col; an absent column reads
\* as no-data.
Cell(t, idx, col) ==
    IF col \in Range(t.columns) THEN t.data[idx + 1][col] ELSE NoData

CsvCell(f, idx, col) ==
    IF col \in Range(f.header) THEN f.lines[idx + 1][PosOf(f.header, col)]
    ELSE NoData

\* Either coordinate of record idx is null/NaN in the loaded table.
CoordinateAbsent(idx) ==
    \/ df.data[idx + 1][S_latitude] = NoData
    \/ df.data[idx + 1][S_longitude] = NoData

\* The value the stubbed adapter of call y gives for record idx.
StubOf(idx, y) ==
    StubValue(df.data[idx + 1][S_latitude], df.data[idx + 1][S_longitude], y)

CallIndexes == 1..Len(CallsOf[config])

ColOf(y) == CallsOf[config][y].col

\* The value of attribute y of record idx in the run on the same table and
\* configuration in which no adapter call fails and no error occurs: the
\* stub's value for a record with coordinates in [start_idx, total), the
\* loaded table's cell (no-data when it has no such column) otherwise.
NoFailureCell(idx, y) ==
    IF idx >= start_idx /\ ~CoordinateAbsent(idx) THEN StubOf(idx, y)
    ELSE Cell(df, idx, ColOf(y))

\* The task of record idx raised out of enrich_listing.
Raised(idx) == idx \in faults /\ adapterCalls[idx] = << >>

\* What the merge of record idx must leave in attribute y, given the calls
\* issued for the record and those that failed.
MergedCell(idx, y) ==
    IF y \in Range(adapterCalls[idx])
    THEN (IF <<idx, y>> \in failed THEN NoData ELSE StubOf(idx, y))
    ELSE Cell(df, idx, ColOf(y))

\* a / b rounded up, b > 0
CeilDiv(a, b) == (a + b - 1) \div b

(***************************************************************************)
(* C1.  In a run that ends normally in which exactly one adapter call      *)
(* (attribute k of record r) fails and nothing else goes wrong, attribute  *)
(* k of record r is no-data in the output table, and every other attribute *)
(* of r and every attribute of every other record has the value it has in  *)
(* the run with no failure injected.  The run with no failure is the first *)
(* conjunct's case failed = {}: its table is NoFailureCell everywhere.     *)
(***************************************************************************)
C1_SingleFailureIsolated ==
    (pc = "done" /\ faults = {} /\ Cardinality(failed) <= 1) =>
        \A idx \in Records : \A y \in CallIndexes :
            Cell(enriched_df, idx, ColOf(y)) =
                IF <<idx, y>> \in failed THEN NoData ELSE NoFailureCell(idx, y)

\* A finished run with exactly one failed call, in which another attribute
\* of the same record and the same attribute of another record hold values.
C1_Witness ==
    /\ pc = "done"
    /\ faults = {}
    /\ \E idx \in Records : \E k \in CallIndexes :
        /\ failed = {<<idx, k>>}
        /\ Cell(enriched_df, idx, ColOf(k)) = NoData
        /\ \E y \in CallIndexes \ {k} : Cell(enriched_df, idx, ColOf(y)) # NoData
        /\ \E other \in Records \ {idx} : Cell(enriched_df, other, ColOf(k)) # NoData

(***************************************************************************)
(* C2.  A record whose latitude or longitude is null/NaN never has an      *)
(* adapter call issued for it and its task holds an empty result, in every *)
(* configuration; unless an error is injected into it, its task returns.   *)
(* The run goes on: at normal termination every record of                  *)
(* [start_idx, total) has been attempted.                                  *)
(***************************************************************************)
C2_MissingCoordinatesSkipped ==
    /\ \A idx \in Records :
         (pc # "idle" /\ CoordinateAbsent(idx)) =>
            /\ adapterCalls[idx] = << >>
            /\ idx \in DOMAIN tasks =>
                 /\ tasks[idx].data = << >>
                 /\ tasks[idx].st # "awaiting"
                 /\ idx \notin faults => tasks[idx].st \in {"pending", "returned"}
    /\ pc = "done" => \A idx \in Records : idx >= start_idx => attempts[idx] = 1

\* A finished run over a table with a record lacking a coordinate, attempted
\* and skipped, and a later record that was looked up.
C2_Witness ==
    /\ pc = "done"
    /\ \E idx \in Records :
        /\ CoordinateAbsent(idx)
        /\ attempts[idx] = 1
        /\ idx \notin faults
        /\ \E other \in Records : other > idx /\ adapterCalls[other] # << >>

(***************************************************************************)
(* C3.  In every state of a run the output table has exactly the rows of   *)
(* the loaded table, with the same labels in the same order and the same   *)
(* pass-through cells, and the loaded table's columns first; every         *)
(* intermediate file that was written completely has one line per input    *)
(* row, in input order.  Merging adds columns only.                        *)
(***************************************************************************)
C3_RowsPreserved ==
    /\ pc # "idle" =>
        /\ enriched_df.index = df.index
        /\ Len(enriched_df.data) = Len(df.data)
        /\ SubSeq(enriched_df.columns, 1, Len(df.columns)) = df.columns
        /\ \A idx \in Records : \A c \in Range(df.columns) \ {ColOf(y) : y \in CallIndexes} :
              enriched_df.data[idx + 1][c] = df.data[idx + 1][c]
    /\ (checkpointFile # << >> /\ pc # "failed") =>
        /\ Len(checkpointFile[1].lines) = Len(inputFile.lines)
        /\ \A r \in 1..Len(inputFile.lines) :
              CsvCell(checkpointFile[1], r - 1, S_address) = inputFile.lines[r][1]

\* A finished run with a failed call and an unexpected error, that added
\* columns and wrote the intermediate file at least twice.
C3_Witness ==
    /\ pc = "done"
    /\ failed # {}
    /\ faults # {}
    /\ Len(enriched_df.columns) > Len(df.columns)
    /\ checkpointWrites >= 2

(***************************************************************************)
(* C4.  Resume idempotence: when an invocation with --start-idx k, made    *)
(* after an interrupted invocation whose intermediate file covers records  *)
(* [0, k), ends normally, rows [0, k) of its output table (and of the      *)
(* intermediate file it wrote) are identical to the prior intermediate     *)
(* file, enrichment columns included, and rows [k, N) hold the results of  *)
(* the resumed invocation.                                                 *)
(***************************************************************************)
C4_ResumeIdempotent ==
    (prior # << >> /\ pc = "done") =>
        /\ \A idx \in Records : \A c \in Range(prior[1].checkpoint.header) :
              idx < prior[1].k =>
                /\ Cell(enriched_df, idx, c) = CsvCell(prior[1].checkpoint, idx, c)
                /\ checkpointWrites > 0 =>
                     CsvCell(checkpointFile[1], idx, c)
                        = CsvCell(prior[1].checkpoint, idx, c)
        /\ \A idx \in Records : \A y \in CallIndexes :
              idx >= prior[1].k =>
                 Cell(enriched_df, idx, ColOf(y)) = MergedCell(idx, y)

\* The same statement for a resumption that is given the intermediate file
\* as its --input.
C4_ResumeFromCheckpoint ==
    (prior # << >> /\ prior[1].fromCheckpoint) => C4_ResumeIdempotent

(***************************************************************************)
(* C5 as stated.  When a checkpoint has been written, every record with    *)
(* positional index below the completed-batch boundary has been attempted  *)
(* exactly once in this run, and no record is attempted twice in a run.    *)
(***************************************************************************)
C5_PrefixAttemptedOnce ==
    /\ checkpointWrites > 0 =>
         \A idx \in Records : idx < boundary => attempts[idx] = 1
    /\ \A idx \in Records : attempts[idx] <= 1

(***************************************************************************)
(* C5 amended.  When a checkpoint has been written, every record of        *)
(* [start_idx, boundary) has been attempted exactly once in this run and   *)
(* no record below start_idx has been attempted; no record is ever         *)
(* attempted twice in a run.                                               *)
(***************************************************************************)
C5_PrefixFromStartAttemptedOnce ==
    /\ checkpointWrites > 0 =>
         \A idx \in Records :
            idx < boundary => attempts[idx] = (IF idx >= start_idx THEN 1 ELSE 0)
    /\ \A idx \in Records : attempts[idx] <= 1

\* A run that started past the first record has written a checkpoint and
\* is gathering its next batch.
C5_Witness ==
    /\ checkpointWrites >= 1
    /\ start_idx > 0
    /\ boundary > start_idx
    /\ pc = "gather"
    /\ \E idx \in DOMAIN tasks : idx >= boundary /\ attempts[idx] = 1

(***************************************************************************)
(* C6.  With the intermediate file enabled, a task (and so any adapter     *)
(* lookup) of a record of batch n+1 (n >= 1, counted from start_idx)       *)
(* exists only after the writes of batches 1..n have completed, and the    *)
(* file then holds the table as merged so far; after a failed write no     *)
(* task exists and no record of a later batch has been attempted.          *)
(***************************************************************************)
C6_CheckpointBeforeNextBatch ==
    /\ config.save_intermediate =>
         \A idx \in Records :
            (idx >= start_idx /\ attempts[idx] > 0) =>
                checkpointWrites >= (idx - start_idx) \div batch_size
    /\ (config.save_intermediate /\ pc = "gather" /\ i > start_idx) =>
         /\ boundary = i
         /\ checkpointFile = << ToCsv(enriched_df) >>
    /\ pc = "failed" =>
         /\ tasks = << >>
         /\ \A idx \in Records : idx >= batch_end => attempts[idx] = 0

\* A lookup of the second batch is in flight, after the first write.
C6_Witness ==
    /\ config.save_intermediate
    /\ pc = "gather"
    /\ i > start_idx
    /\ checkpointWrites = 1
    /\ \E idx \in DOMAIN tasks : tasks[idx].st = "awaiting"

(***************************************************************************)
(* C7.  The output table and the intermediate file change only when the    *)
(* table is loaded or when every task of the gathered batch has returned   *)
(* or raised; in particular an interruption while lookups are in flight    *)
(* changes neither.                                                        *)
(***************************************************************************)
C7_MergeOnlyAfterJoin ==
    [][ (enriched_df' # enriched_df \/ checkpointFile' # checkpointFile) =>
          \/ pc \in {"idle", "interrupted"}
          \/ /\ pc = "gather"
             /\ \A idx \in DOMAIN tasks : tasks[idx].st \in {"returned", "raised"}
      ]_vars

\* An interrupted run: a checkpoint was written, and lookups had been issued
\* for a record of the batch that was being gathered.
C7_Witness ==
    /\ pc = "interrupted"
    /\ checkpointWrites > 0
    /\ \E idx \in Records : idx >= boundary /\ adapterCalls[idx] # << >>
    /\ checkpointFile = << ToCsv(enriched_df) >>

(***************************************************************************)
(* C8.  When a run is interrupted after at least one completed checkpoint  *)
(* write, the intermediate file is a valid partial output table: one line  *)
(* per input row in input order, the merged result of every record of the  *)
(* batches completed before the interruption, and the loaded table's cells *)
(* for every other record.  Re-invoking with --start-idx set to the first  *)
(* record the file does not cover attempts exactly the remaining records,  *)
(* each once, and merges their results.                                    *)
(***************************************************************************)
C8_CheckpointValidOnInterrupt ==
    /\ (pc = "interrupted" /\ checkpointWrites > 0) =>
        /\ checkpointFile # << >>
        /\ Len(checkpointFile[1].lines) = Len(inputFile.lines)
        /\ \A idx \in Records :
            /\ CsvCell(checkpointFile[1], idx, S_address) = inputFile.lines[idx + 1][1]
            /\ \A y \in CallIndexes :
                 CsvCell(checkpointFile[1], idx, ColOf(y)) =
                    IF idx >= start_idx /\ idx < boundary
                    THEN MergedCell(idx, y)
                    ELSE Cell(df, idx, ColOf(y))
    /\ prior # << >> =>
        /\ start_idx = prior[1].k
        /\ \A idx \in Records : idx < prior[1].k => attempts[idx] = 0
        /\ pc = "done" =>
             \A idx \in Records : idx >= prior[1].k =>
                /\ attempts[idx] = 1
                /\ \A y \in CallIndexes :
                     Cell(enriched_df, idx, ColOf(y)) = MergedCell(idx, y)

\* A resumed run that ended: the interrupted run had checkpointed a value
\* for some but not all records, and the resumed run merged a value for a
\* record the checkpoint did not cover.
C8_Witness ==
    /\ pc = "done"
    /\ prior # << >>
    /\ prior[1].k > 0
    /\ prior[1].k < total
    /\ \E idx \in Records : \E y \in CallIndexes :
          idx < prior[1].k /\ CsvCell(prior[1].checkpoint, idx, ColOf(y)) # NoData
    /\ \E idx \in Records : \E y \in CallIndexes :
          idx >= prior[1].k /\ Cell(enriched_df, idx, ColOf(y)) # NoData

C10_RecordFailureIsolated ==
    /\ ((\E r \in Records : Raised(r)) /\ pc \in {"sleep", "done"}) =>
        /\ \A idx \in Records : \A y \in CallIndexes :
              (idx >= start_idx /\ idx < batch_end) =>
                 Cell(enriched_df, idx, ColOf(y)) = MergedCell(idx, y)
        /\ config.save_intermediate =>
              /\ checkpointFile = << ToCsv(enriched_df) >>
              /\ boundary = batch_end
        /\ pc = "done" =>
              \A idx \in Records : idx >= start_idx => attempts[idx] = 1
    /\ pc = "failed" => config.save_intermediate

\* A finished run in which a record raised, another record of the same
\* batch had a value merged, and a record of a later batch was looked up.
C10_Witness ==
    /\ pc = "done"
    /\ \E r \in Records :
        /\ Raised(r)
        /\ \E other \in Records \ {r} : \E y \in CallIndexes :
             /\ other > r
             /\ (other - start_idx) \div batch_size = (r - start_idx) \div batch_size
             /\ Cell(enriched_df, other, ColOf(y)) # NoData
        /\ \E later \in Records :
             /\ (later - start_idx) \div batch_size > (r - start_idx) \div batch_size
             /\ adapterCalls[later] # << >>

(***************************************************************************)
(* C11.  A record whose enrichment hit an unexpected (non-adapter) error   *)
(* holds no new column value once its batch is merged, wherever in its     *)
(* enrichment the error occurred: each of its enrichment cells is the      *)
(* loaded table's cell.                                                    *)
(***************************************************************************)
C11_FaultedRecordGetsNothing ==
    pc \in {"sleep", "done"} =>
        \A idx \in Records : \A y \in CallIndexes :
            (idx \in faults /\ idx < batch_end) =>
                Cell(enriched_df, idx, ColOf(y)) = Cell(df, idx, ColOf(y))

(***************************************************************************)
(* C12.  enrich_listing never raises because of adapter failures: a task   *)
(* with a failed adapter call has not raised, a task raises only through   *)
(* an error that is not an adapter's, and a task of a record with          *)
(* coordinates that returned without such an error holds one item per      *)
(* enabled call, in call order: no-data for each failed call, the          *)
(* adapter's value for each other, whatever the set of failed calls.       *)
(***************************************************************************)
C12_EnricherNeverRaisesOnAdapterFailure ==
    \A idx \in DOMAIN tasks :
        /\ \A k \in CallIndexes : <<idx, k>> \in failed => tasks[idx].st # "raised"
        /\ tasks[idx].st = "raised" => Raised(idx)
        /\ (tasks[idx].st = "returned" /\ ~CoordinateAbsent(idx) /\ idx \notin faults) =>
              tasks[idx].data =
                 [k \in CallIndexes |->
                     [col |-> ColOf(k),
                      value |-> IF <<idx, k>> \in failed THEN NoData
                                ELSE StubOf(idx, k)]]

\* A task returned its result map after every one of its adapter calls (two
\* of them) failed.
C12_Witness ==
    \E idx \in DOMAIN tasks :
        /\ tasks[idx].st = "returned"
        /\ Len(CallsOf[config]) = 2
        /\ failed = {<<idx, 1>>, <<idx, 2>>}
        /\ Len(tasks[idx].data) = 2

(***************************************************************************)
(* C13.  A failed checkpoint write ends the run with an error reported to  *)
(* the operator.  When the gather of a batch has completed and the         *)
(* intermediate file is enabled, a step that does not complete the write   *)
(* ends the run with exit status 1; a run ended by a failed write has the  *)
(* failure message as its report, no task, and no record of a later batch  *)
(* attempted; and nothing happens after it.                                *)
(***************************************************************************)
C13_CheckpointFailureTerminates ==
    /\ [](pc = "failed" =>
            /\ report # << >>
            /\ report[1].status = 1
            /\ report[1].message = "Enrichment failed: {e}"
            /\ tasks = << >>
            /\ \A idx \in Records : idx >= batch_end => attempts[idx] = 0)
    /\ [][ (pc = "gather" /\ AllTasksDone /\ config.save_intermediate
              /\ checkpointWrites' = checkpointWrites) =>
             (pc' \in {"failed", "interrupted"} /\ report'[1].status = 1) ]_vars
    /\ [][ pc # "failed" ]_vars

\* The write of a batch after the first failed, with records of a later
\* batch still unattempted.
C13_Witness ==
    /\ pc = "failed"
    /\ checkpointWrites >= 1
    /\ report # << >>
    /\ report[1].status = 1
    /\ \E idx \in Records : idx >= batch_end /\ attempts[idx] = 0

(***************************************************************************)
(* C14.  The batch being gathered is the contiguous range [i, batch_end):  *)
(* it starts a whole number of batch_size steps above start_idx, it is not *)
(* empty, and it has exactly batch_size records unless it ends the table.  *)
(* The records attempted so far are exactly those of [start_idx,           *)
(* batch_end), each once: batches are disjoint and taken in ascending      *)
(* order of positional index, and no record below start_idx is attempted.  *)
(***************************************************************************)
C14_BatchesPartitionInOrder ==
    /\ pc = "gather" =>
         /\ DOMAIN tasks = i..(batch_end - 1)
         /\ i >= start_idx
         /\ (i - start_idx) % batch_size = 0
         /\ i < batch_end
         /\ batch_end - i = batch_size \/ batch_end = total
    /\ pc # "idle" =>
         \A idx \in Records :
            attempts[idx] = IF idx >= start_idx /\ idx < batch_end THEN 1 ELSE 0

\* The last batch of a run is being gathered and is shorter than batch_size.
C14_Witness ==
    /\ pc = "gather"
    /\ i > start_idx
    /\ batch_end = total
    /\ batch_end - i < batch_size
    /\ DOMAIN tasks = i..(batch_end - 1)

(***************************************************************************)
(* C15.  At normal termination every row of the output table has every     *)
(* column of the table; the columns are those of the loaded table and the  *)
(* attribute of every adapter call issued for some record during the run;  *)
(* and in each such attribute a record holds the adapter's value where its *)
(* lookup succeeded and no-data where the lookup failed, where the record  *)
(* was skipped for missing coordinates, where its enrichment stopped       *)
(* before the lookup, or where the record was not attempted.               *)
(***************************************************************************)
C15_EveryRowEveryColumn ==
    pc = "done" =>
        /\ \A idx \in Records :
              DOMAIN enriched_df.data[idx + 1] = Range(enriched_df.columns)
        /\ Range(enriched_df.columns) =
              Range(df.columns) \cup
                 {ColOf(y) : y \in {z \in CallIndexes :
                                      \E idx \in Records : z \in Range(adapterCalls[idx])}}
        /\ \A idx \in Records : \A y \in CallIndexes :
              ColOf(y) \in Range(enriched_df.columns) =>
                 enriched_df.data[idx + 1][ColOf(y)] =
                    IF y \in Range(adapterCalls[idx]) /\ <<idx, y>> \notin failed
                    THEN StubOf(idx, y)
                    ELSE NoData

\* A finished run with a column that holds a value in one row, no-data in
\* the row of a record skipped for a missing coordinate, and no-data in the
\* row of a record whose lookup failed.
C15_Witness ==
    /\ pc = "done"
    /\ \E y \in CallIndexes :
        /\ \E a \in Records : Cell(enriched_df, a, ColOf(y)) # NoData
        /\ \E b \in Records :
              /\ CoordinateAbsent(b)
              /\ attempts[b] = 1
              /\ ColOf(y) \in DOMAIN enriched_df.data[b + 1]
              /\ enriched_df.data[b + 1][ColOf(y)] = NoData
        /\ \E c \in Records :
              /\ <<c, y>> \in failed
              /\ enriched_df.data[c + 1][ColOf(y)] = NoData

(***************************************************************************)
(* C16.  Merging the result of one record changes no cell of another row.  *)
(* For every batch whose gather has completed and every record idx of it   *)
(* that returned a result: between the table as merged up to idx and the   *)
(* table after the merge of idx, the number of rows is the same, every     *)
(* other row keeps every value it held, and in a column the merge created  *)
(* every other row holds no-data.                                          *)
(***************************************************************************)
C16_MergeTouchesOwnRowOnly ==
    (pc = "gather" /\ AllTasksDone) =>
        \A idx \in DOMAIN tasks :
            tasks[idx].st = "returned" =>
                LET before == MergeBatch(enriched_df, tasks, i, idx)
                    after  == MergeItems(before, idx, tasks[idx].data)
                IN  /\ Len(after.data) = Len(before.data)
                    /\ after.index = before.index
                    /\ \A other \in Records \ {idx} :
                          /\ \A c \in Range(before.columns) :
                                after.data[other + 1][c] = before.data[other + 1][c]
                          /\ \A c \in Range(after.columns) \ Range(before.columns) :
                                after.data[other + 1][c] = NoData

\* A result with a value is about to be merged into a table in which a row
\* of an earlier batch holds another value in the same column.
C16_Witness ==
    /\ pc = "gather"
    /\ AllTasksDone
    /\ \E idx \in DOMAIN tasks : \E j \in 1..Len(tasks[idx].data) :
          /\ tasks[idx].st = "returned"
          /\ tasks[idx].data[j].value # NoData
          /\ \E other \in Records :
                /\ other < i
                /\ Cell(enriched_df, other, tasks[idx].data[j].col) # NoData
                /\ Cell(enriched_df, other, tasks[idx].data[j].col)
                      # tasks[idx].data[j].value

(***************************************************************************)
(* C17.  In every configuration, every cell of every column of the input   *)
(* table has the input's value in the output table at every point of the   *)
(* run, and in every line of the intermediate file; a completed write      *)
(* leaves one line per input row.                                          *)
(***************************************************************************)
C17_PassThroughUnchanged ==
    /\ pc # "idle" =>
         \A idx \in Records : \A c \in Range(inputFile.header) :
            /\ c \in Range(enriched_df.columns)
            /\ enriched_df.data[idx + 1][c] = CsvCell(inputFile, idx, c)
    /\ checkpointFile # << >> =>
         /\ \A r \in 1..Len(checkpointFile[1].lines) :
               \A c \in Range(inputFile.header) :
                  /\ c \in Range(checkpointFile[1].header)
                  /\ CsvCell(checkpointFile[1], r - 1, c) = CsvCell(inputFile, r - 1, c)
         /\ pc # "failed" =>
               Len(checkpointFile[1].lines) = Len(inputFile.lines)

\* A finished run that wrote the intermediate file twice and added two
\* columns, over a table with a record lacking a coordinate.
C17_Witness ==
    /\ pc = "done"
    /\ checkpointWrites >= 2
    /\ Len(enriched_df.columns) >= Len(inputFile.header) + 2
    /\ \E idx \in Records : CoordinateAbsent(idx) /\ attempts[idx] = 1
    /\ \E idx \in Records : \E y \in CallIndexes :
          Cell(enriched_df, idx, ColOf(y)) # NoData
    /\ checkpointFile = << ToCsv(enriched_df) >>

(***************************************************************************)
(* C18.  The run sleeps for the inter-batch delay only when another batch  *)
(* follows.  While batch n (counted from 1) is gathered n - 1 delays have  *)
(* been taken, the delay after batch n is the n-th, and a run that ends    *)
(* normally has taken the number of its batches minus one (none when it    *)
(* had no batch).                                                          *)
(***************************************************************************)
C18_DelayBetweenBatchesOnly ==
    /\ pc = "sleep" =>
         /\ batch_end < total
         /\ delays = ((i - start_idx) \div batch_size) + 1
    /\ pc = "gather" => delays = (i - start_idx) \div batch_size
    /\ pc = "done" =>
         delays = IF start_idx < total
                  THEN CeilDiv(total - start_idx, batch_size) - 1
                  ELSE 0

\* A finished run of at least two batches, the last one shorter.
C18_Witness ==
    /\ pc = "done"
    /\ delays >= 1
    /\ (total - start_idx) % batch_size # 0
    /\ delays = (total - start_idx) \div batch_size

(***************************************************************************)
(* C19.  When every adapter call returns or fails, no checkpoint write     *)
(* fails and batch_size >= 1, the run eventually ends normally: main exits *)
(* with status 0, the output table has every row of the input, and every   *)
(* record of [start_idx, total) has been attempted.                        *)
(***************************************************************************)
C19_RunTerminates ==
    <>( /\ pc = "done"
        /\ report # << >>
        /\ report[1].status = 0
        /\ Len(enriched_df.data) = Len(inputFile.lines)
        /\ \A idx \in Records : idx >= start_idx => attempts[idx] = 1 )

\* A run of three batches, with a failed adapter call, ended normally.
C19_Witness ==
    /\ pc = "done"
    /\ report # << >>
    /\ report[1].status = 0
    /\ delays = 2
    /\ failed # {}
    /\ \A idx \in Records : idx >= start_idx => attempts[idx] = 1

(***************************************************************************)
(* C20.  When the operator interrupts a run, what main reports names the   *)
(* index to resume from: the first record after the last completed batch   *)
(* (the start of the batch that was being gathered, or the end of the      *)
(* batch whose delay was interrupted).                                     *)
(***************************************************************************)
C20_ResumeIndexReported ==
    pc = "interrupted" =>
        /\ report # << >>
        /\ \E j \in 1..Len(report[1].values) :
              report[1].values[j] \in {i, batch_end, boundary}

(***************************************************************************)
(* The MTD adapter (services/mtd.py), examined on its own.                 *)
(*                                                                         *)
(* A distance is a number of ten-thousandths of a foot, so that FT_PER_KM  *)
(* (3280.8399 ft) and the distances one foot around it are integers.  A    *)
(* JSON value that may be missing is a record: kind "absent" (the key is   *)
(* not in the object), "null", or "list" with its items.                   *)
(***************************************************************************)
\* FT_PER_KM = 3280.8399
FT_PER_KM == 32808399

\* longest list of stops in a response
MaxStops == 2

AbsentValue == [kind |-> "absent", items |-> << >>]

NullValue == [kind |-> "null", items |-> << >>]

ListValue(items) == [kind |-> "list", items |-> items]

\* The stops of the responses explored: without a distance field, or one
\* foot inside, exactly at and one foot outside FT_PER_KM.
StopObjects ==
    { [distance |-> NoData] } \cup
    { [distance |-> << d >>] :
         d \in {FT_PER_KM - 10000, FT_PER_KM, FT_PER_KM + 10000} }

JsonValues ==
    { AbsentValue, NullValue } \cup
    { ListValue(l) : l \in UNION { [1..n -> StopObjects] : n \in 0..MaxStops } }

\* bool(x) of a JSON value: None and the empty list are false
Truthy(v) == v.kind = "list" /\ v.items # << >>

\* data.get(key, [])
GetOrEmpty(v) == IF v.kind = "absent" THEN ListValue(<< >>) ELSE v

\* a or b
Or(a, b) == IF Truthy(a) THEN a ELSE b

\* stops = data.get("stops", []) or data.get("stop", []) or []
SelectStops(data) ==
    Or(Or(GetOrEmpty(data.stops), GetOrEmpty(data.stop)), ListValue(<< >>))

\* s.get("distance", FT_PER_KM * 2)
StopDistance(s) == IF s.distance = NoData THEN FT_PER_KM * 2 ELSE s.distance[1]

\* A variant of CountWithin that leaves out a stop at exactly FT_PER_KM.
CountStrictlyWithin(stops) ==
    Cardinality({ j \in 1..Len(stops.items) :
                     StopDistance(stops.items[j]) < FT_PER_KM })

\* sum(1 for s in stops if s.get("distance", FT_PER_KM * 2) <= FT_PER_KM)
CountWithin(stops) ==
    Cardinality({ j \in 1..Len(stops.items) :
                     StopDistance(stops.items[j]) <= FT_PER_KM })

\* The orchestrator at rest, while a function is examined on its own.
AtRest ==
    /\ inputFile = InputTable([r \in 1..MaxRows |-> TRUE])
    /\ checkpointFile = << >>
    /\ pc = "idle"
    /\ config = MakeConfig(FALSE, TRUE, FALSE, FALSE, FALSE, << >>, << >>, TRUE)
    /\ batch_size = 1
    /\ start_idx = 0
    /\ df = EmptyFrame
    /\ enriched_df = EmptyFrame
    /\ i = 0
    /\ tasks = << >>
    /\ attempts = NoAttempts
    /\ adapterCalls = [r \in 0..(MaxRows - 1) |-> << >>]
    /\ failed = {}
    /\ faults = {}
    /\ checkpointWrites = 0
    /\ boundary = 0
    /\ delays = 0
    /\ runsLeft = 0
    /\ prior = << >>
    /\ report = << >>
    /\ outOfOrder = FALSE

orchestratorVars ==
    << inputFile, checkpointFile, pc, config, batch_size, start_idx, df,
       enriched_df, i, tasks, attempts, adapterCalls, failed, faults,
       checkpointWrites, boundary, delays, runsLeft, prior, report, outOfOrder >>

\* enrich_listing is about to await bus_stops_within_1km(lat, lon) for a
\* record with coordinates; key tells whether CUMTD_API_KEY is set, status
\* and body are what the MTD server will answer.
InitMtd ==
    /\ AtRest
    /\ \E key \in BOOLEAN, lat \in 1..MaxRows, status \in {200, 404, 500},
          stops \in JsonValues, stop \in JsonValues :
          call = << [fn |-> "bus_stops_within_1km", pc |-> "called", key |-> key,
                     lat |-> lat, status |-> status,
                     body |-> [stops |-> stops, stop |-> stop],
                     requests |-> 0, raised |-> "", value |-> NoData,
                     stored |-> << >>] >>

\* A variant of MtdCall without the check of the API key.
MtdCallKeyUnchecked ==
    /\ call # << >>
    /\ call[1].fn = "bus_stops_within_1km"
    /\ call[1].pc = "called"
    /\ call' = << [call[1] EXCEPT !.pc = "requested", !.requests = @ + 1] >>
    /\ UNCHANGED orchestratorVars

\* if not API_KEY: raise RuntimeError(...); else the GET request is sent.
MtdCall ==
    /\ call # << >>
    /\ call[1].fn = "bus_stops_within_1km"
    /\ call[1].pc = "called"
    /\ call' = IF call[1].key
               THEN << [call[1] EXCEPT !.pc = "requested", !.requests = @ + 1] >>
               ELSE << [call[1] EXCEPT !.pc = "raised", !.raised = "RuntimeError"] >>
    /\ UNCHANGED orchestratorVars

\* A variant of MtdResponse without r.raise_for_status().
MtdResponseUnchecked ==
    /\ call # << >>
    /\ call[1].fn = "bus_stops_within_1km"
    /\ call[1].pc = "requested"
    /\ call' = << [call[1] EXCEPT
                     !.pc = "returned",
                     !.value = << CountWithin(SelectStops(call[1].body)) >>] >>
    /\ UNCHANGED orchestratorVars

\* The response arrives: r.raise_for_status(), then the count of the stops
\* of r.json().
MtdResponse ==
    /\ call # << >>
    /\ call[1].fn = "bus_stops_within_1km"
    /\ call[1].pc = "requested"
    /\ call' = IF call[1].status >= 400
               THEN << [call[1] EXCEPT !.pc = "raised",
                                       !.raised = "HTTPStatusError"] >>
               ELSE << [call[1] EXCEPT
                          !.pc = "returned",
                          !.value = << CountWithin(SelectStops(call[1].body)) >>] >>
    /\ UNCHANGED orchestratorVars

\* Step 2 of enrich_listing: the count is stored under bus_stops_1km, None
\* when the adapter raised.
MtdStore ==
    /\ call # << >>
    /\ call[1].fn = "bus_stops_within_1km"
    /\ call[1].pc \in {"raised", "returned"}
    /\ call' = << [call[1] EXCEPT
                     !.pc = "stored",
                     !.stored = DictSet(<< >>, S_bus_stops_1km,
                                        IF call[1].pc = "raised" THEN NoData
                                        ELSE call[1].value)] >>
    /\ UNCHANGED orchestratorVars

NextMtd ==
    \/ MtdCall
    \/ MtdResponse
    \/ MtdStore

SpecMtd == InitMtd /\ [][NextMtd]_vars

\* The items of a JSON value that is a list, none otherwise.
ItemsOf(v) == IF v.kind = "list" THEN v.items ELSE << >>

(***************************************************************************)
(* C21.  bus_stops_within_1km returns the number of stops whose distance   *)
(* field is present and at most FT_PER_KM, among the stops of the 'stops'  *)
(* list, or of the 'stop' list when 'stops' is empty, null or absent; it   *)
(* returns 0 when both are empty, null or absent.                          *)
(***************************************************************************)
C21_CountsStopsWithinOneKm ==
    (call # << >> /\ call[1].fn = "bus_stops_within_1km"
        /\ call[1].pc = "returned") =>
        LET l == IF ItemsOf(call[1].body.stops) # << >>
                 THEN ItemsOf(call[1].body.stops)
                 ELSE ItemsOf(call[1].body.stop)
        IN  call[1].value =
               << Cardinality({ j \in 1..Len(l) :
                                   /\ l[j].distance # NoData
                                   /\ l[j].distance[1] <= FT_PER_KM }) >>

\* A response whose 'stops' list holds a stop at exactly FT_PER_KM and a stop
\* without a distance was counted as 1.
C21_Witness ==
    /\ call # << >>
    /\ call[1].fn = "bus_stops_within_1km"
    /\ call[1].pc = "returned"
    /\ call[1].body.stops = ListValue(<< [distance |-> << FT_PER_KM >>],
                                         [distance |-> NoData] >>)
    /\ call[1].value = << 1 >>

(***************************************************************************)
(* C22.  When CUMTD_API_KEY is not set, bus_stops_within_1km raises        *)
(* RuntimeError without having sent a request, whatever the coordinate,    *)
(* and step 2 of enrich_listing then stores no-data under bus_stops_1km.   *)
(***************************************************************************)
C22_MissingKeyRaisesBeforeRequest ==
    (call # << >> /\ call[1].fn = "bus_stops_within_1km" /\ ~call[1].key) =>
        /\ call[1].requests = 0
        /\ call[1].pc \in {"called", "raised", "stored"}
        /\ call[1].pc # "called" => call[1].raised = "RuntimeError"
        /\ call[1].pc = "stored" =>
              call[1].stored = << [col |-> S_bus_stops_1km, value |-> NoData] >>

\* Without the key, the call for the last record's coordinate raised and
\* the enricher stored no-data.
C22_Witness ==
    /\ call # << >>
    /\ call[1].fn = "bus_stops_within_1km"
    /\ ~call[1].key
    /\ call[1].lat = MaxRows
    /\ call[1].pc = "stored"
    /\ call[1].requests = 0
    /\ call[1].stored[1].value = NoData

(***************************************************************************)
(* C23.  When the HTTP response has an error status (4xx, 5xx),            *)
(* bus_stops_within_1km raises: it never returns a count, whatever the     *)
(* body of the response.                                                   *)
(***************************************************************************)
C23_HttpErrorRaises ==
    (call # << >> /\ call[1].fn = "bus_stops_within_1km"
        /\ call[1].key /\ call[1].status >= 400) =>
        /\ call[1].pc # "returned"
        /\ call[1].value = NoData
        /\ call[1].pc \in {"raised", "stored"} => call[1].raised = "HTTPStatusError"
        /\ call[1].pc = "stored" => call[1].stored[1].value = NoData

\* The server answered 500 to the request and the call raised.
C23_Witness ==
    /\ call # << >>
    /\ call[1].fn = "bus_stops_within_1km"
    /\ call[1].key
    /\ call[1].status = 500
    /\ call[1].requests = 1
    /\ call[1].pc = "raised"
    /\ call[1].raised = "HTTPStatusError"

(***************************************************************************)
(* C24.  At every moment the enrichments in flight are tasks of the batch  *)
(* being gathered: at most batch_size of them, all of [i, batch_end), and  *)
(* none outside a gather.  The tasks of a batch go away only when every    *)
(* one of them has returned or raised, or when the run is interrupted, and *)
(* tasks are created only when none is left: no enrichment of a batch      *)
(* overlaps one of the next.                                               *)
(***************************************************************************)
C24_OneBatchInFlight ==
    /\ [](/\ Cardinality(DOMAIN tasks) <= batch_size
          /\ \A idx \in DOMAIN tasks : idx >= i /\ idx < batch_end
          /\ pc # "gather" => tasks = << >>)
    /\ [][ (DOMAIN tasks # {} /\ DOMAIN tasks' # DOMAIN tasks) =>
             \/ \A idx \in DOMAIN tasks : tasks[idx].st \in {"returned", "raised"}
             \/ pc' = "interrupted" ]_vars
    /\ [][ (\E idx \in DOMAIN tasks' : idx \notin DOMAIN tasks) =>
             DOMAIN tasks = {} ]_vars

\* batch_size = 2 enrichments are suspended on their adapter calls at once.
C24_Witness ==
    /\ pc = "gather"
    /\ batch_size = 2
    /\ Cardinality(DOMAIN tasks) = 2
    /\ \A idx \in DOMAIN tasks : tasks[idx].st = "awaiting"


(***************************************************************************)
(* C25.  For fixed adapter outcomes, every checkpoint and the output table *)
(* are the same for every completion order of the lookups within a batch.  *)
(* The outcomes are the calls issued per record, the calls that failed and *)
(* the records that raised; none of them records an order.  The table      *)
(* after the merge of the batches up to a record is the loaded table with  *)
(* each record's outcomes written at the record's own positional index, a  *)
(* record that raised left as loaded, and each file written is the CSV of  *)
(* that table up to the write's boundary.                                  *)
(***************************************************************************)
\* The result of record idx as its outcomes determine it.
OutcomeOf(idx) ==
    [n \in 1..Len(adapterCalls[idx]) |->
        [col   |-> ColOf(adapterCalls[idx][n]),
         value |-> IF <<idx, adapterCalls[idx][n]>> \in failed THEN NoData
                   ELSE StubOf(idx, adapterCalls[idx][n])]]

RECURSIVE TableOfOutcomes(_, _, _)
\* Table t with the outcomes of the records of [lo, hi) written in place.
TableOfOutcomes(t, lo, hi) ==
    IF lo >= hi THEN t
    ELSE TableOfOutcomes(IF Raised(lo) THEN t
                         ELSE MergeItems(t, lo, OutcomeOf(lo)),
                         lo + 1, hi)

C25_OrderIndependent ==
    pc \in {"gather", "sleep", "done"} =>
        /\ enriched_df = TableOfOutcomes(df, start_idx,
                                         IF pc = "gather" THEN i ELSE batch_end)
        /\ (config.save_intermediate /\ checkpointWrites > 0) =>
              checkpointFile = << ToCsv(TableOfOutcomes(df, start_idx, boundary)) >>

\* A batch has been merged and written in which a task finished before one
\* of lower index, one record raised and another has a value.
C25_Witness ==
    /\ pc \in {"sleep", "done"}
    /\ outOfOrder
    /\ config.save_intermediate
    /\ checkpointWrites > 0
    /\ \E r \in i..(batch_end - 1), q \in i..(batch_end - 1) :
          /\ r # q
          /\ Raised(r)
          /\ adapterCalls[q] # << >>
          /\ <<q, 1>> \notin failed
          /\ Cell(enriched_df, q, ColOf(1)) = StubOf(q, 1)
          /\ StubOf(q, 1) # NoData


(***************************************************************************)
(* enrich_listing on its own: one record, any configuration.               *)
(***************************************************************************)
\* longest place_types mapping explored
MaxPlaceTypes == 2
\* longest landmarks mapping explored
MaxLandmarks == 2

S_parks            == <<"p","a","r","k","s">>
S_carle_hospital   == <<"c","a","r","l","e"," ","h","o","s","p","i","t","a","l">>
S_Memorial_Stadium == <<"M","e","m","o","r","i","a","l"," ","S","t","a","d","i","u","m">>

\* Category names and landmark names a configuration may use.  The keys of
\* a dict are distinct, and its items come in insertion order.
PlaceTypeNames == << S_gyms, S_cafes, S_parks >>

LandmarkNames == { S_Carle_Hospital, S_carle_hospital, S_Memorial_Stadium }

\* The sequences of at most n distinct elements of S.
SeqsNoRep(S, n) ==
    { s \in UNION { [1..m -> S] : m \in 0..n } :
        \A a \in DOMAIN s, b \in DOMAIN s : a # b => s[a] # s[b] }

\* Every combination of the five include_ flags, a place_types mapping of up
\* to MaxPlaceTypes categories and a landmarks mapping of up to MaxLandmarks
\* landmarks.  Each is a well-formed config (mappings keyed by strings), so
\* the code between the inner try blocks (config.get, .items()) cannot raise.
KeyConfigs ==
    { MakeConfig(census, mtd, beat, places, routes,
                 SubSeq(PlaceTypeNames, 1, n), marks, TRUE) :
        census \in BOOLEAN, mtd \in BOOLEAN, beat \in BOOLEAN,
        places \in BOOLEAN, routes \in BOOLEAN,
        n \in 0..MaxPlaceTypes, marks \in SeqsNoRep(LandmarkNames, MaxLandmarks) }

\* A row with the two coordinate cells.
CoordinateRow(lat, lon) ==
    [c \in {S_latitude, S_longitude} |-> IF c = S_latitude THEN lat ELSE lon]

\* enrich_listing(row, config) has been called: data is enriched_data,
\* invoked the adapter families awaited so far, outcomes whether each
\* completed call returned (TRUE) or raised (FALSE).
InitKeys ==
    /\ AtRest
    /\ \E cfg \in KeyConfigs, lat \in {NoData, <<1>>}, lon \in {NoData, <<1>>} :
          call = << [fn |-> "enrich_listing", pc |-> "called", cfg |-> cfg,
                     row |-> CoordinateRow(lat, lon), k |-> 0, data |-> << >>,
                     invoked |-> << >>, outcomes |-> << >>] >>

\* The coordinate check (lines 60-62), then the first enabled adapter call
\* is awaited.
EnrichStart ==
    /\ call # << >>
    /\ call[1].fn = "enrich_listing"
    /\ call[1].pc = "called"
    /\ LET calls == Calls(call[1].cfg)
       IN  call' = IF MissingCoordinates(call[1].row) \/ calls = << >>
                   THEN << [call[1] EXCEPT !.pc = "returned"] >>
                   ELSE << [call[1] EXCEPT !.pc = "awaiting", !.k = 1,
                                           !.invoked = << calls[1].family >>] >>
    /\ UNCHANGED orchestratorVars

\* The awaited adapter call returns or raises; its inner try/except stores
\* the value or None, and the next enabled call is awaited or the dict is
\* returned.
EnrichAdapterReturn ==
    /\ call # << >>
    /\ call[1].fn = "enrich_listing"
    /\ call[1].pc = "awaiting"
    /\ \E ok \in BOOLEAN :
        LET calls == Calls(call[1].cfg)
            k == call[1].k
            data == StoreResult(call[1].data, calls, k, call[1].row, ok)
        IN  call' = IF k = Len(calls)
                    THEN << [call[1] EXCEPT !.pc = "returned", !.data = data,
                                            !.outcomes = Append(@, ok)] >>
                    ELSE << [call[1] EXCEPT !.k = k + 1, !.data = data,
                                            !.outcomes = Append(@, ok),
                                            !.invoked = Append(@, calls[k + 1].family)] >>
    /\ UNCHANGED orchestratorVars

NextKeys == EnrichStart \/ EnrichAdapterReturn

SpecKeys == InitKeys /\ [][NextKeys]_vars

\* The keys of a dict kept as the sequence of its items.
KeysOf(d) == { d[j].col : j \in DOMAIN d }

\* The value stored under key col of dict d.
ValueAt(d, col) == d[CHOOSE j \in DOMAIN d : d[j].col = col].value

\* The key set a configuration determines.
ConfiguredKeys(cfg) ==
    (IF cfg.include_census THEN {S_median_income} ELSE {})
    \cup (IF cfg.include_mtd THEN {S_bus_stops_1km} ELSE {})
    \cup (IF cfg.include_police_beat THEN {S_police_beat} ELSE {})
    \cup (IF cfg.include_places
          THEN { cfg.place_types[j] \o S_nearby : j \in DOMAIN cfg.place_types }
          ELSE {})
    \cup (IF cfg.include_routes
          THEN { S_drive_to \o Slug(cfg.landmarks[j]) \o S_min :
                   j \in DOMAIN cfg.landmarks }
          ELSE {})

\* The adapter families a configuration enables.
EnabledFamilies(cfg) ==
    (IF cfg.include_census THEN {"census"} ELSE {})
    \cup (IF cfg.include_mtd THEN {"mtd"} ELSE {})
    \cup (IF cfg.include_police_beat THEN {"police_beat"} ELSE {})
    \cup (IF cfg.include_places THEN {"places"} ELSE {})
    \cup (IF cfg.include_routes THEN {"routes"} ELSE {})

(***************************************************************************)
(* C26.  For a record with both coordinates, the key set of the dict that  *)
(* enrich_listing returns is exactly the set the configuration determines  *)
(* (median_income, bus_stops_1km, police_beat for each enabled family, one *)
(* {category}_nearby per configured category, one drive_to_{slug}_min per  *)
(* configured landmark), whichever adapter calls returned or raised; an    *)
(* adapter of a disabled family is never invoked.                          *)
(***************************************************************************)
C26_KeySetFromConfig ==
    (call # << >> /\ call[1].fn = "enrich_listing") =>
        /\ (call[1].pc = "returned" /\ ~MissingCoordinates(call[1].row)) =>
              KeysOf(call[1].data) = ConfiguredKeys(call[1].cfg)
        /\ \A j \in DOMAIN call[1].invoked :
              call[1].invoked[j] \in EnabledFamilies(call[1].cfg)

\* A returned enrichment of a record with coordinates, with a disabled and
\* an enabled base family, two categories and a landmark, in which one call
\* returned and another raised.
C26_Witness ==
    /\ call # << >>
    /\ call[1].fn = "enrich_listing"
    /\ call[1].pc = "returned"
    /\ ~MissingCoordinates(call[1].row)
    /\ call[1].cfg.include_census
    /\ ~call[1].cfg.include_mtd
    /\ call[1].cfg.include_places /\ Len(call[1].cfg.place_types) = 2
    /\ call[1].cfg.include_routes /\ Len(call[1].cfg.landmarks) >= 1
    /\ \E a \in DOMAIN call[1].outcomes, b \in DOMAIN call[1].outcomes :
          call[1].outcomes[a] /\ ~call[1].outcomes[b]
    /\ S_bus_stops_1km \notin KeysOf(call[1].data)


\* No two landmarks of the configuration have the same slug.
SlugsDistinct(cfg) ==
    \A a \in DOMAIN cfg.landmarks, b \in DOMAIN cfg.landmarks :
        a # b => Slug(cfg.landmarks[a]) # Slug(cfg.landmarks[b])

\* What completed call n of the enrichment examined must have stored: the
\* adapter's value when it returned, no-data when it raised.
OutcomeValue(n) ==
    IF call[1].outcomes[n]
    THEN StubValue(call[1].row[S_latitude], call[1].row[S_longitude], n)
    ELSE NoData

\* The place-category and landmark calls, among the completed calls of done.
GroupCalls(calls, done) ==
    { n \in DOMAIN done : calls[n].family \in {"places", "routes"} }

(***************************************************************************)
(* C27 as stated.  Each configured place category and each configured      *)
(* landmark has its own key, {category}_nearby or drive_to_{slug}_min, the *)
(* same whether its call returned or raised, and the key holds that call's *)
(* own outcome whatever the later calls of its siblings did.               *)
(***************************************************************************)
C27_OwnKeyPerCategoryAndLandmark ==
    (call # << >> /\ call[1].fn = "enrich_listing") =>
        LET calls == Calls(call[1].cfg)
            group == GroupCalls(calls, call[1].outcomes)
            keys  == KeysOf(call[1].data)
        IN  \A n \in group :
              /\ calls[n].col \in keys
              /\ ValueAt(call[1].data, calls[n].col) = OutcomeValue(n)
              /\ \A m \in group : m # n => calls[m].col # calls[n].col

(***************************************************************************)
(* C27 amended.  Each configured place category has its own key            *)
(* {category}_nearby, and each configured landmark the key                 *)
(* drive_to_{slug}_min, the same whether its call returned or raised.      *)
(* When no two configured landmarks have the same slug, the keys are       *)
(* pairwise distinct and each holds its own call's outcome whatever its    *)
(* siblings did.  Landmarks whose names differ only in letter case or in   *)
(* space versus underscore share one key, which holds the outcome of the   *)
(* last of them looked up.                                                 *)
(***************************************************************************)
C27_OwnKeyWhenSlugsDistinct ==
    (call # << >> /\ call[1].fn = "enrich_listing") =>
        LET calls == Calls(call[1].cfg)
            group == GroupCalls(calls, call[1].outcomes)
            keys  == KeysOf(call[1].data)
            distinct == SlugsDistinct(call[1].cfg)
            Last(n) == CHOOSE m \in group :
                          /\ calls[m].col = calls[n].col
                          /\ \A o \in group : calls[o].col = calls[n].col => o <= m
        IN  \A n \in group :
              /\ calls[n].col \in keys
              /\ ValueAt(call[1].data, calls[n].col) = OutcomeValue(Last(n))
              /\ calls[n].family = "places" => Last(n) = n
              /\ distinct => Last(n) = n

\* A returned enrichment with two categories and two landmarks of different
\* slugs in which a category call and a landmark call raised and their
\* siblings hold their values.
C27_Witness ==
    /\ call # << >>
    /\ call[1].fn = "enrich_listing"
    /\ call[1].pc = "returned"
    /\ SlugsDistinct(call[1].cfg)
    /\ Len(call[1].cfg.landmarks) = 2
    /\ LET calls == Calls(call[1].cfg)
           group == GroupCalls(calls, call[1].outcomes)
       IN  /\ Cardinality({ n \in group : calls[n].family = "places" }) = 2
           /\ Cardinality({ n \in group : calls[n].family = "routes" }) = 2
           /\ \E a \in group, b \in group, c \in group, d \in group :
                 /\ a < b /\ b < c /\ c < d
                 /\ ~call[1].outcomes[a] /\ call[1].outcomes[b]
                 /\ call[1].outcomes[c] /\ ~call[1].outcomes[d]
                 /\ ValueAt(call[1].data, calls[b].col) = OutcomeValue(b)
                 /\ ValueAt(call[1].data, calls[c].col) = OutcomeValue(c)


(***************************************************************************)
(* C28.  The table passed to enrich_listings_batch is never modified by a  *)
(* run: from the call on, through every merge and after normal             *)
(* termination, a failure or an interruption, it has the index, columns    *)
(* and cells it was loaded with, and no step changes it.                   *)
(***************************************************************************)
C28_InputTableUnmodified ==
    /\ [](pc # "idle" => df = ReadCsv(inputFile))
    /\ [][pc # "idle" => df' = df]_vars

\* An interrupted run that had merged values into the output table and
\* written them, with the table passed in as loaded.
C28_Witness ==
    /\ pc = "interrupted"
    /\ checkpointWrites > 0
    /\ enriched_df # df
    /\ df = ReadCsv(inputFile)
    /\ \E idx \in Records : \E y \in CallIndexes :
          /\ Cell(enriched_df, idx, ColOf(y)) # NoData
          /\ Cell(df, idx, ColOf(y)) = NoData


(***************************************************************************)
(* C29.  With the intermediate file enabled, after a run that ends         *)
(* normally having processed at least one batch, the last file written is  *)
(* the CSV of the table returned and covers every record: nothing is       *)
(* merged after the final write.                                           *)
(***************************************************************************)
C29_LastCheckpointIsOutput ==
    (pc = "done" /\ config.save_intermediate /\ start_idx < total) =>
        /\ checkpointWrites > 0
        /\ checkpointFile = << ToCsv(enriched_df) >>
        /\ boundary = total

\* A finished run of two or more batches, the last of which merged a value.
C29_Witness ==
    /\ pc = "done"
    /\ config.save_intermediate
    /\ checkpointWrites >= 2
    /\ checkpointFile = << ToCsv(enriched_df) >>
    /\ \E idx \in i..(total - 1) : \E y \in CallIndexes :
          /\ Cell(enriched_df, idx, ColOf(y)) # NoData
          /\ CsvCell(checkpointFile[1], idx, ColOf(y)) = Cell(enriched_df, idx, ColOf(y))


(***************************************************************************)
(* The Google Places adapter: count_places_nearby, on its own.             *)
(***************************************************************************)
\* for _ in range(3)
PageRequestCap == 3
\* result pages the server holds for one search
MaxPages == 4
\* places on one result page
MaxPlaces == 2

\* A result page: places is << >> when the response has no "places" key,
\* else <<the length of the list>>; token is the nextPageToken.
Page(status, places, token) == [status |-> status, places |-> places, token |-> token]

\* A nextPageToken: no such key, an empty string, or the token that leads to
\* page next.
NoToken == [kind |-> "absent", next |-> 0]

EmptyToken == [kind |-> "empty", next |-> 0]

TokenFor(next) == [kind |-> "token", next |-> next]

\* The result set of a search: L pages, each but the last carrying the
\* token of its successor, the last carrying lastToken; page number bad (0:
\* none) is answered with status st, the others with 200.
Pages(L, counts, bad, st, lastToken) ==
    [j \in 1..L |->
        Page(IF j = bad THEN st ELSE 200, counts[j],
             IF j < L THEN TokenFor(j + 1) ELSE lastToken)]

\* len(data.get("places", []))
PlacesOn(page) == IF page.places = << >> THEN 0 ELSE page.places[1]

\* bool(token): None and the empty string are false
TokenTruthy(token) == token.kind = "token"

\* enrich_listing is about to await count_places_nearby(...); key tells
\* whether GOOGLE_MAPS_API_KEY is set, pages is what the server holds: one
\* to MaxPages pages of up to MaxPlaces places each.
\* pageToken is payload["pageToken"] (NoToken: the key is not in the
\* payload), token and total the local variables.
InitPlaces ==
    /\ AtRest
    /\ \E key \in BOOLEAN, L \in 1..MaxPages :
       \E counts \in [1..L -> {<< >>} \cup { <<n>> : n \in 0..MaxPlaces }],
          bad \in 0..L, lastToken \in {NoToken, EmptyToken} :
       \E st \in IF bad = 0 THEN {200} ELSE {201, 403} :
          call = << [fn |-> "count_places_nearby", pc |-> "called", key |-> key,
                     pages |-> Pages(L, counts, bad, st, lastToken), requests |-> 0, pageToken |-> NoToken,
                     token |-> NoToken, total |-> 0, raised |-> "",
                     value |-> NoData] >>

\* The page the server answers a request with: the first page when the
\* payload has no pageToken, else the page the token leads to.
PageServed(pages, pageToken) ==
    pages[IF pageToken.kind = "token" THEN pageToken.next ELSE 1]

\* if not API_KEY: raise RuntimeError(...); else the first iteration posts
\* the request (token is None: no pageToken in the payload).
PlacesCall ==
    /\ call # << >>
    /\ call[1].fn = "count_places_nearby"
    /\ call[1].pc = "called"
    /\ call' = IF call[1].key
               THEN << [call[1] EXCEPT !.pc = "requested", !.requests = 1] >>
               ELSE << [call[1] EXCEPT !.pc = "raised", !.raised = "RuntimeError"] >>
    /\ UNCHANGED orchestratorVars

\* A variant of PlacesResponse without the break: a page that carries no
\* token does not end the loop (the payload keeps the pageToken it had).
PlacesResponseNoBreak ==
    /\ call # << >>
    /\ call[1].fn = "count_places_nearby"
    /\ call[1].pc = "requested"
    /\ LET c == call[1]
           page == PageServed(c.pages, c.pageToken)
           total1 == c.total + PlacesOn(page)
       IN  call' =
             IF page.status # 200
             THEN << [c EXCEPT !.pc = "raised", !.raised = "RuntimeError"] >>
             ELSE IF c.requests >= PageRequestCap
             THEN << [c EXCEPT !.pc = "returned", !.total = total1,
                               !.token = page.token, !.value = << total1 >>] >>
             ELSE << [c EXCEPT !.total = total1, !.token = page.token,
                               !.requests = @ + 1,
                               !.pageToken = IF TokenTruthy(page.token)
                                             THEN page.token ELSE @] >>
    /\ UNCHANGED orchestratorVars

\* The response of the request posted arrives (lines 38-50): a status other
\* than 200 raises; else the places of the page are added, the token is
\* read, and the loop ends (no token, or third iteration) or the next
\* iteration posts a request with the token as pageToken.
PlacesResponse ==
    /\ call # << >>
    /\ call[1].fn = "count_places_nearby"
    /\ call[1].pc = "requested"
    /\ LET c == call[1]
           page == PageServed(c.pages, c.pageToken)
           total1 == c.total + PlacesOn(page)
       IN  call' =
             IF page.status # 200
             THEN << [c EXCEPT !.pc = "raised", !.raised = "RuntimeError"] >>
             ELSE IF ~TokenTruthy(page.token) \/ c.requests >= PageRequestCap
             THEN << [c EXCEPT !.pc = "returned", !.total = total1,
                               !.token = page.token, !.value = << total1 >>] >>
             ELSE << [c EXCEPT !.total = total1, !.token = page.token,
                               !.requests = @ + 1, !.pageToken = page.token] >>
    /\ UNCHANGED orchestratorVars

NextPlaces == PlacesCall \/ PlacesResponse

SpecPlaces == InitPlaces /\ [][NextPlaces]_vars

RECURSIVE SumPlaces(_, _)
\* The number of places on the first n pages.
SumPlaces(pages, n) ==
    IF n = 0 THEN 0 ELSE SumPlaces(pages, n - 1) + PlacesOn(pages[n])

\* The first page that carries no nextPageToken.
FirstWithoutToken(pages) ==
    CHOOSE j \in DOMAIN pages :
        /\ ~TokenTruthy(pages[j].token)
        /\ \A o \in DOMAIN pages : o < j => TokenTruthy(pages[o].token)

(***************************************************************************)
(* C30.  count_places_nearby posts at most 3 page requests per call; when  *)
(* it returns it has fetched the pages up to the first one that carries no *)
(* nextPageToken, or the first 3 when that page comes later, and returns   *)
(* the sum of the numbers of places on the pages it fetched, so less than  *)
(* the server holds when pages beyond the third have places.               *)
(***************************************************************************)
C30_AtMostThreePages ==
    (call # << >> /\ call[1].fn = "count_places_nearby") =>
        /\ call[1].requests <= 3
        /\ call[1].pc = "returned" =>
              LET fetched == Min(3, FirstWithoutToken(call[1].pages))
              IN  /\ call[1].requests = fetched
                  /\ call[1].value = << SumPlaces(call[1].pages, fetched) >>

\* A call that returned after three pages while the server holds a fourth
\* with places on it: the count is less than the number of places held.
C30_Witness ==
    /\ call # << >>
    /\ call[1].fn = "count_places_nearby"
    /\ call[1].pc = "returned"
    /\ Len(call[1].pages) = 4
    /\ call[1].requests = 3
    /\ PlacesOn(call[1].pages[4]) > 0
    /\ call[1].value = << SumPlaces(call[1].pages, 3) >>
    /\ call[1].value[1] > 0
    /\ call[1].value[1] < SumPlaces(call[1].pages, 4)


\* The keys of the adapter calls of a configuration in the order income,
\* transit stops, beat, place categories in configuration order, landmarks
\* in configuration order.
KeyOrder(cfg) ==
    (IF cfg.include_census THEN << S_median_income >> ELSE << >>)
    \o (IF cfg.include_mtd THEN << S_bus_stops_1km >> ELSE << >>)
    \o (IF cfg.include_police_beat THEN << S_police_beat >> ELSE << >>)
    \o (IF cfg.include_places
        THEN [j \in DOMAIN cfg.place_types |-> cfg.place_types[j] \o S_nearby]
        ELSE << >>)
    \o (IF cfg.include_routes
        THEN [j \in DOMAIN cfg.landmarks |->
                S_drive_to \o Slug(cfg.landmarks[j]) \o S_min]
        ELSE << >>)

\* The adapter calls in flight: one per task suspended on a call.
InFlight == { idx \in DOMAIN tasks : tasks[idx].st = "awaiting" }

(***************************************************************************)
(* C31.  Within one record's enrichment the adapter calls are issued one   *)
(* after another in the fixed order income, transit stops, beat, place     *)
(* categories in configuration order, landmarks in configuration order,    *)
(* each at most once per run: the calls issued for a record are the first  *)
(* n of that order, only the last of them can be in flight, so at most     *)
(* batch_size calls are in flight overall; a call is issued only by the    *)
(* step that completes the record's previous call (or starts the record),  *)
(* and a call that failed is never issued again.                           *)
(***************************************************************************)
C31_SequentialCallsNoRetry ==
    /\ [](pc \in {"gather", "sleep", "done", "failed", "interrupted"} =>
            /\ \A idx \in DOMAIN adapterCalls :
                  /\ Len(adapterCalls[idx]) <= Len(KeyOrder(config))
                  /\ \A n \in DOMAIN adapterCalls[idx] :
                        /\ adapterCalls[idx][n] = n
                        /\ ColOf(n) = KeyOrder(config)[n]
                  /\ \A n \in DOMAIN adapterCalls[idx] :
                        <<idx, n>> \in failed =>
                           Cardinality({ m \in DOMAIN adapterCalls[idx] :
                                           adapterCalls[idx][m] = n }) = 1
            /\ \A idx \in InFlight :
                  /\ adapterCalls[idx] # << >>
                  /\ tasks[idx].k = adapterCalls[idx][Len(adapterCalls[idx])]
                  /\ Len(tasks[idx].data) = tasks[idx].k - 1
            /\ Cardinality(InFlight) <= batch_size)
    /\ [][ \A idx \in DOMAIN adapterCalls :
              adapterCalls'[idx] # adapterCalls[idx] =>
                 /\ idx \in DOMAIN tasks
                 /\ adapterCalls'[idx] =
                       Append(adapterCalls[idx], Len(adapterCalls[idx]) + 1)
                 /\ \/ tasks[idx].st = "pending" /\ adapterCalls[idx] = << >>
                    \/ /\ tasks[idx].st = "awaiting"
                       /\ Len(tasks'[idx].data) = Len(adapterCalls[idx]) ]_vars

\* Two records of a batch of two each have a call in flight; for one of
\* them the first call failed and the second call has been issued.
C31_Witness ==
    /\ pc = "gather"
    /\ batch_size = 2
    /\ Cardinality(InFlight) = 2
    /\ \E idx \in InFlight :
          /\ <<idx, 1>> \in failed
          /\ adapterCalls[idx] = << 1, 2 >>
          /\ tasks[idx].k = 2

=============================================================================
